---- MODULE Spec2Model ----
(***************************************************************************)
(* A model of iw3 (nunif): the 2D -> side-by-side stereo converter.        *)
(*                                                                         *)
(*   src/iw3/cli.py            warps, process_image, batch drivers, main   *)
(*   src/nunif/utils/pil_io.py image decoding                              *)
(*                                                                         *)
(* Tensors are single-channel (the channel axis is untouched by every      *)
(* operation modelled here): a record [h, w, px] with px a function on     *)
(* (0..h-1) \X (0..w-1).  A float pixel is an exact reduced fraction       *)
(* <<n, d>>; an 8-bit (PIL) pixel is an integer 0..PixMax.                 *)
(* Divergence is held in tenths (20 = 2.0, 25 = 2.5).                      *)
(***************************************************************************)
EXTENDS Integers, Sequences, FiniteSets, TLC

(***************************************************************************)
(* Bounds of the model.                                                    *)
(***************************************************************************)
\* largest image side enumerated pixel by pixel
MaxDim == 3
\* largest 8-bit pixel value of the model (255 in PIL)
PixMax == 2
\* denominator of the depth values fed to the closed-form warp
DepthScale == 2
\* --pad is drawn from 0/PadDen .. MaxPadNum/PadDen (dyadic, exact as floats)
PadDen == 2
MaxPadNum == 4

(***************************************************************************)
(* Exact arithmetic.                                                       *)
(***************************************************************************)
Abs(x) == IF x < 0 THEN -x ELSE x

Min(a, b) == IF a < b THEN a ELSE b

Max(a, b) == IF a > b THEN a ELSE b

RECURSIVE GCD(_, _)
GCD(a, b) == IF b = 0 THEN a ELSE GCD(b, a % b)

\* the reduced fraction n/d, d > 0
Frac(n, d) ==
    LET g == GCD(Abs(n), d)
    IN  <<n \div g, d \div g>>

Zero == Frac(0, 1)

\* torch.clamp(z, 0., 1.) on one value
Clamp01(v) ==
    IF v[1] < 0 THEN Frac(0, 1)
    ELSE IF v[1] > v[2] THEN Frac(1, 1)
    ELSE v

(***************************************************************************)
(* Tensors and the torch / torchvision / PIL operations the code calls.    *)
(***************************************************************************)
Coords(h, w) == (0 .. h - 1) \X (0 .. w - 1)

Tensor(h, w, f(_, _)) ==
    [h |-> h, w |-> w, px |-> [rc \in Coords(h, w) |-> f(rc[1], rc[2])]]

NoTensor == [h |-> 0, w |-> 0, px |-> <<>>]

\* torch.flip(x, (2,)): mirror along the width axis
Flip(x) ==
    LET f(r, c) == x.px[<<r, x.w - 1 - c>>]
    IN  Tensor(x.h, x.w, f)

\* F.pad(x, (p, p, p, p), mode="replicate")
PadReplicate(x, p) ==
    LET f(r, c) == x.px[<<Min(Max(r - p, 0), x.h - 1), Min(Max(c - p, 0), x.w - 1)>>]
    IN  Tensor(x.h + 2 * p, x.w + 2 * p, f)

\* a slip: (left, right, top, bottom), the argument order of F.pad
PadConstant_FPadOrder(x, left, top, right, bottom) ==
    LET f(r, c) ==
            IF /\ r >= right /\ r < right + x.h
               /\ c >= left /\ c < left + x.w
            THEN x.px[<<r - right, c - left>>]
            ELSE Frac(0, 1)
    IN  Tensor(x.h + right + bottom, x.w + left + top, f)

\* TF.pad(x, (left, top, right, bottom), padding_mode="constant"), fill = 0
PadConstant(x, left, top, right, bottom) ==
    LET f(r, c) ==
            IF /\ r >= top /\ r < top + x.h
               /\ c >= left /\ c < left + x.w
            THEN x.px[<<r - top, c - left>>]
            ELSE Zero
    IN  Tensor(x.h + top + bottom, x.w + left + right, f)

\* torch.cat([a, b], dim=2): concatenation along the width axis
CatWidth(a, b) ==
    LET f(r, c) == IF c < a.w THEN a.px[<<r, c>>] ELSE b.px[<<r, c - a.w>>]
    IN  Tensor(a.h, a.w + b.w, f)

\* x[:, i1:i2, j1:j2]
Slice(x, i1, i2, j1, j2) ==
    LET f(r, c) == x.px[<<i1 + r, j1 + c>>]
    IN  Tensor(i2 - i1, j2 - j1, f)

\* PIL Image.transpose(ROTATE_90): counterclockwise
Rotate90(x) ==
    LET f(r, c) == x.px[<<c, x.w - 1 - r>>]
    IN  Tensor(x.w, x.h, f)

\* PIL Image.transpose(ROTATE_270): clockwise
Rotate270(x) ==
    LET f(r, c) == x.px[<<x.h - 1 - c, r>>]
    IN  Tensor(x.w, x.h, f)

\* TF.to_tensor: an 8-bit pixel k becomes the float k / PixMax
ToTensor(im) ==
    LET f(r, c) == Frac(im.px[<<r, c>>], PixMax)
    IN  Tensor(im.h, im.w, f)

\* TF.to_pil_image: pic.mul(PixMax).byte(), a truncation
ToPilImage(x) ==
    LET f(r, c) == (x.px[<<r, c>>][1] * PixMax) \div x.px[<<r, c>>][2]
    IN  Tensor(x.h, x.w, f)

(***************************************************************************)
(* The closed-form warp.  F.grid_sample(mode="bicubic",                    *)
(* padding_mode="border", align_corners=True), computed exactly.           *)
(***************************************************************************)
\* torch's cubic convolution coefficients (A = -0.75) at t = n/q, each
\* multiplied by 4 q^3:  cc2(t+1), cc1(t), cc1(1-t), cc2(2-t)
CubicCoeffs(n, q) ==
    LET cc1(a) == 5 * a * a * a - 9 * a * a * q + 4 * q * q * q
        cc2(a) == -3 * a * (q - a) * (q - a)
    IN  <<cc2(n), cc1(n), cc1(q - n), cc2(q - n)>>

\* index_shift = (1. - depth ** 2) * (shift * divergence * 0.01), as the
\* fraction <<numerator, denominator>> (d = depth value, divergence in tenths)
IndexShift(d, divergence, shift) ==
    <<(d[2] * d[2] - d[1] * d[1]) * shift * divergence, 1000 * d[2] * d[2]>>

\* a slip: align_corners left at its default (False), where unnormalize is
\* ((x + 1) * w - 1) / 2
SourceX_AlignCornersFalse(c, w, ishift) ==
    IF w = 1 THEN Frac(0 - ishift[1] - ishift[2], 2 * ishift[2])
    ELSE Frac(2 * c * ishift[2] * w - ishift[1] * w * (w - 1) - ishift[2] * (w - 1),
              2 * ishift[2] * (w - 1))

\* the source column (in pixels) grid_sample reads for output column c:
\* unnormalize(mesh_x - index_shift) = c - index_shift * (w - 1) / 2
SourceX(c, w, ishift) ==
    Frac(c * 2 * ishift[2] - ishift[1] * (w - 1), 2 * ishift[2])

\* a denominator every pixel of x (a to_tensor image) can be written over
CommonDen(x) ==
    CHOOSE d \in 1 .. PixMax : \A rc \in DOMAIN x.px : d % x.px[rc][2] = 0

\* one output pixel of grid_sample, clamped by torch.clamp(z, 0., 1.):
\* the 4 x 4 taps around the source position, border-clamped
GridSamplePixel(x, r, c, sx) ==
    LET q == sx[2]
        x0 == sx[1] \div q
        cx == CubicCoeffs(sx[1] % q, q)
        cy == CubicCoeffs(0, 1)
        cd == CommonDen(x)
        at(rr, cc) ==
            LET p == x.px[<<Min(Max(rr, 0), x.h - 1), Min(Max(cc, 0), x.w - 1)>>]
            IN  p[1] * (cd \div p[2])
        row(j) ==
            cx[1] * at(r + j - 2, x0 - 1) + cx[2] * at(r + j - 2, x0)
            + cx[3] * at(r + j - 2, x0 + 1) + cx[4] * at(r + j - 2, x0 + 2)
        total == cy[1] * row(1) + cy[2] * row(2) + cy[3] * row(3) + cy[4] * row(4)
    IN  Clamp01(Frac(total, cd * 16 * q * q * q))

apply_divergence_grid_sample(c, depth, divergence, shift) ==
    LET f(r, cc) ==
            GridSamplePixel(c, r, cc,
                SourceX(cc, c.w, IndexShift(depth.px[<<r, cc>>], divergence, shift)))
    IN  Tensor(c.h, c.w, f)

(***************************************************************************)
(* The learned warp: apply_divergence_nn over SeamBlending.tiled_render.   *)
(***************************************************************************)
\* tile_size=256 of the tiled_render call
TileSize == 256
\* the padding config_callback returns
ConfigPad == 7

\* a slip: a padding that leaves no interior (tile_size = 2 pad)
NNTileConfig_NoInterior == [tile_size |-> TileSize, pad |-> TileSize \div 2]

\* what apply_divergence_nn gives tiled_render
NNTileConfig == [tile_size |-> TileSize, pad |-> ConfigPad]

FracLess(a, b) == a[1] * b[2] < b[1] * a[2]

\* depth.min(), depth.max()
DepthMin(depth) ==
    CHOOSE v \in {depth.px[rc] : rc \in DOMAIN depth.px} :
        \A rc \in DOMAIN depth.px : ~FracLess(depth.px[rc], v)

DepthMax(depth) ==
    CHOOSE v \in {depth.px[rc] : rc \in DOMAIN depth.px} :
        \A rc \in DOMAIN depth.px : ~FracLess(v, depth.px[rc])

\* The Tile Scheduler: destination regions of side tile_size - 2 pad laid
\* row-major over the unpadded (h, w) grid, the last row and column clipped;
\* each source region is the destination grown by pad on every side, in the
\* coordinates of the padded image.
TileSeq(h, w, tile_size, pad) ==
    LET d == tile_size - 2 * pad
        nrows == (h + d - 1) \div d
        ncols == (w + d - 1) \div d
        tile(n) ==
            LET i == (n - 1) \div ncols
                j == (n - 1) % ncols
                th == Min(d, h - i * d)
                tw == Min(d, w - j * d)
            IN  [top |-> i * d, left |-> j * d, h |-> th, w |-> tw,
                 i1 |-> i * d, i2 |-> i * d + th + 2 * pad,
                 j1 |-> j * d, j2 |-> j * d + tw + 2 * pad]
    IN  [n \in 1 .. nrows * ncols |-> tile(n)]

\* make_input_tensor: the tile's image and depth with the metadata
make_input_tensor(xx, dd, divergence, image_width, depth_min, depth_max) ==
    [xx |-> xx, dd |-> dd, divergence |-> divergence, image_width |-> image_width,
     depth_min |-> depth_min, depth_max |-> depth_max]

\* a slip: the image width scaled for a model trained at 2.5, whatever the
\* fixed_divergence of the model
input_callback_Fixed25(model, image_width, divergence, depth_min, depth_max, p, t) ==
    make_input_tensor(Slice(p[1], t.i1, t.i2, t.j1, t.j2),
                      Slice(p[2], t.i1, t.i2, t.j1, t.j2),
                      25,
                      Frac(image_width * divergence, 25),
                      depth_min, depth_max)

\* input_callback(p, i1, i2, j1, j2)
input_callback(model, image_width, divergence, depth_min, depth_max, p, t) ==
    make_input_tensor(Slice(p[1], t.i1, t.i2, t.j1, t.j2),
                      Slice(p[2], t.i1, t.i2, t.j1, t.j2),
                      model.fixed_divergence,
                      Frac(image_width * divergence, model.fixed_divergence),
                      depth_min, depth_max)

\* The side model's forward pass on one padded tile: a row flow that moves
\* each pixel by one column, left for the nearest depth and right for the
\* farthest, when the effective width allows it.  It returns the tile
\* without its padding.
ModelForward(model, inp, pad) ==
    LET off(r, c) ==
            LET d == inp.dd.px[<<r + pad, c + pad>>]
                wide == inp.image_width[1] >= 2 * inp.image_width[2]
            IN  IF pad = 0 \/ ~wide \/ inp.depth_min = inp.depth_max THEN 0
                ELSE IF d = inp.depth_max THEN model.flow
                ELSE IF d = inp.depth_min THEN 0 - model.flow
                ELSE 0
        f(r, c) == inp.xx.px[<<r + pad, c + pad + off(r, c)>>]
    IN  Tensor(inp.xx.h - 2 * pad, inp.xx.w - 2 * pad, f)

\* SeamBlending.tiled_render: pad once by replication, render every tile,
\* write each result at its destination
tiled_render(c, depth, model, cfg, image_width, divergence, depth_min, depth_max) ==
    LET p == <<PadReplicate(c, cfg.pad), PadReplicate(depth, cfg.pad)>>
        tiles == TileSeq(c.h, c.w, cfg.tile_size, cfg.pad)
        out(n) ==
            ModelForward(model,
                input_callback(model, image_width, divergence, depth_min, depth_max,
                               p, tiles[n]),
                cfg.pad)
        owner(r, cc) ==
            CHOOSE n \in DOMAIN tiles :
                /\ r >= tiles[n].top /\ r < tiles[n].top + tiles[n].h
                /\ cc >= tiles[n].left /\ cc < tiles[n].left + tiles[n].w
        f(r, cc) ==
            LET n == owner(r, cc)
            IN  out(n).px[<<r - tiles[n].top, cc - tiles[n].left>>]
    IN  Tensor(c.h, c.w, f)

\* the metadata of every model input of one apply_divergence_nn call
ModelInputs(model, cfg, c, depth, divergence, shift) ==
    LET tiles == TileSeq(c.h, c.w, cfg.tile_size, cfg.pad)
    IN  [n \in DOMAIN tiles |->
            [divergence |-> model.fixed_divergence,
             image_width |-> Frac(c.w * divergence, model.fixed_divergence),
             depth_min |-> DepthMin(depth), depth_max |-> DepthMax(depth)]]

\* a slip: the depth is not mirrored with the image
apply_divergence_nn_DepthNotFlipped(model, cfg, c, depth, divergence, shift) ==
    LET image_width == c.w
        depth_min == DepthMin(depth)
        depth_max == DepthMax(depth)
        c1 == IF shift > 0 THEN Flip(c) ELSE c
        z == tiled_render(c1, depth, model, cfg, image_width, divergence,
                          depth_min, depth_max)
    IN  IF shift > 0 THEN Flip(z) ELSE z

apply_divergence_nn(model, cfg, c, depth, divergence, shift) ==
    LET image_width == c.w
        depth_min == DepthMin(depth)
        depth_max == DepthMax(depth)
        c1 == IF shift > 0 THEN Flip(c) ELSE c
        depth1 == IF shift > 0 THEN Flip(depth) ELSE depth
        z == tiled_render(c1, depth1, model, cfg, image_width, divergence,
                          depth_min, depth_max)
    IN  IF shift > 0 THEN Flip(z) ELSE z

(***************************************************************************)
(* The Stereo Pair Assembler: process_image and get_output_size.           *)
(***************************************************************************)
\* int(size * pad) for pad = num / PadDen >= 0
IntScaled(size, num) == (size * num) \div PadDen

\* a slip: the size computed without the rotation
get_output_size_NoRotate(width, height, pad_set, pad_num, rotate) ==
    LET pad_h0 == IntScaled(height, pad_num)
        pad_h == pad_h0 - (pad_h0 % 2)
        pad_w == IntScaled(width, pad_num) \div 2
    IN  IF pad_set THEN <<width + pad_w * 2, height + pad_h>> ELSE <<width, height>>

\* get_output_size(width, height, pad, rotate): <<width, height>>
get_output_size(width, height, pad_set, pad_num, rotate) ==
    LET w0 == IF rotate THEN height ELSE width
        h0 == IF rotate THEN width ELSE height
        pad_h0 == IntScaled(h0, pad_num)
        pad_h == pad_h0 - (pad_h0 % 2)
        pad_w == IntScaled(w0, pad_num) \div 2
    IN  IF pad_set THEN <<w0 + pad_w * 2, h0 + pad_h>> ELSE <<w0, h0>>

\* config_callback of process_video_full: VideoOutputConfig(width * 2, height)
\* for the width and height of the source stream
VideoOutputConfig(width, height, args) ==
    LET size == get_output_size(width, height, args.pad_set, args.pad_num,
                                args.rotate_left \/ args.rotate_right)
    IN  [width |-> size[1] * 2, height |-> size[2]]

\* normalize_depth: min-max normalisation to [0, 1] (a flat depth to 0)
normalize_depth(depth) ==
    LET lo == DepthMin(depth)
        hi == DepthMax(depth)
        f(r, c) ==
            LET d == depth.px[<<r, c>>]
            IN  IF lo = hi THEN Zero
                ELSE Frac((d[1] * lo[2] - lo[1] * d[2]) * hi[2],
                          (hi[1] * lo[2] - lo[1] * hi[2]) * d[2])
    IN  Tensor(depth.h, depth.w, f)

\* the rotation of process_image
RotateInput(im, args) ==
    IF args.rotate_left THEN Rotate90(im)
    ELSE IF args.rotate_right THEN Rotate270(im)
    ELSE im

\* one eye of process_image: the call record of the selected warp
WarpCall(args, im_org, depth, shift) ==
    IF args.method = "grid_sample"
    THEN LET d == normalize_depth(depth)
         IN  [method |-> "grid_sample", c |-> im_org, depth |-> d,
              divergence |-> args.divergence, shift |-> shift,
              z |-> apply_divergence_grid_sample(im_org, d, args.divergence, shift)]
    ELSE [method |-> "row_flow", c |-> im_org, depth |-> depth,
          divergence |-> args.divergence, shift |-> shift,
          z |-> apply_divergence_nn(args.side_model, args.cfg, im_org, depth,
                                    args.divergence, shift)]

\* the shift each eye is warped with
LeftShift == -1

RightShift == 1

\* pad_h and pad_w of process_image
EyePadH(eye, pad_num) == IntScaled(eye.h, pad_num) - (IntScaled(eye.h, pad_num) % 2)

EyePadW(eye, pad_num) == IntScaled(eye.w, pad_num) \div 2

\* a slip: the right side is left unpadded
PadEye_LeftOnly(eye, args) ==
    IF args.pad_set
    THEN PadConstant(eye, EyePadW(eye, args.pad_num), EyePadH(eye, args.pad_num), 0, 0)
    ELSE eye

\* TF.pad(eye, (pad_w, pad_h, pad_w, 0), padding_mode="constant")
PadEye(eye, args) ==
    IF args.pad_set
    THEN PadConstant(eye, EyePadW(eye, args.pad_num), EyePadH(eye, args.pad_num),
                     EyePadW(eye, args.pad_num), 0)
    ELSE eye

\* a slip: the eyes concatenated in the other order
MakeSbs_Swapped(left_eye, right_eye) == CatWidth(right_eye, left_eye)

\* torch.cat([left_eye, right_eye], dim=2)
MakeSbs(left_eye, right_eye) == CatWidth(left_eye, right_eye)

(***************************************************************************)
(* State.                                                                  *)
(***************************************************************************)
VARIABLES
    \* one call of a warp: its arguments, its result, the model inputs it made
    warp_args, warp_z, warp_inputs, warp_pc,
    \* the Tile Scheduler: the extents it was given, the tiles emitted so far
    ts_args, ts_tiles, ts_pc,
    \* one call of process_image: args, the image, the depth, the warp calls
    \* made, both eyes, the concatenated tensor, the returned image
    pi_args, pi_im, pi_im_org, pi_depth, pi_calls, pi_left_eye, pi_right_eye,
    pi_sbs, pi_out, pi_pc,
    \* the frame size the encoder of the video was configured with
    pi_config,
    \* main: the parsed arguments, what args.input names, the position of the
    \* main thread, where the current driver returns to, the exception raised
    args, input, pc, ret, err,
    \* update_model called, the depth model, the side model
    updated, depth_model, side_model,
    \* the input files opened so far
    reads,
    \* the list a driver walks, the index in it, the unit being processed,
    \* the frame index of the video being processed
    files, idx, cur, frame,
    \* process_image calls in flight, every call made, every item reached
    renders, rendered, yielded,
    \* the output files written, in order, and the output files that exist
    writes, fs_out,
    \* the futures of the pool in submission order, the next one to wait for
    tasks, res_idx

warpVars == <<warp_args, warp_z, warp_inputs, warp_pc>>

tileVars == <<ts_args, ts_tiles, ts_pc>>

imageVars == <<pi_args, pi_im, pi_im_org, pi_depth, pi_calls, pi_left_eye, pi_right_eye,
               pi_sbs, pi_out, pi_pc, pi_config>>

mainVars == <<args, input, pc, ret, err, updated, depth_model, side_model, reads, files, idx,
              cur, frame, renders, rendered, yielded, writes, fs_out, tasks, res_idx>>

vars == <<warpVars, tileVars, imageVars, mainVars>>

(***************************************************************************)
(* Inputs.                                                                 *)
(***************************************************************************)
\* 8-bit pixel values drawn: black, dark, white
PixelLevels == {0, 1, PixMax}

\* depth values drawn: nearest, one interior level, farthest
DepthLevels == {Frac(0, 1), Frac(1, DepthScale), Frac(1, 1)}

\* image extents (h, w) of at most MaxDim pixels
SmallDims == {hw \in (1 .. MaxDim) \X (1 .. MaxDim) : hw[1] * hw[2] <= MaxDim}

ImagesOf(h, w) ==
    {[h |-> h, w |-> w, px |-> f] : f \in [Coords(h, w) -> PixelLevels]}

DepthsOf(h, w) ==
    {[h |-> h, w |-> w, px |-> f] : f \in [Coords(h, w) -> DepthLevels]}

\* --divergence values of the closed-form warp, in tenths
GridDivergences == {0, 250, 500}

\* the side models: the d20 and d25 weights
SideModels == {[fixed_divergence |-> 20, flow |-> 1], [fixed_divergence |-> 25, flow |-> -1]}

\* tile size and padding of tiled_render: the code's, and scaled to MaxDim
TileConfigs == {NNTileConfig, [tile_size |-> 3, pad |-> 1]}

(***************************************************************************)
(* SpecWarp: one call of apply_divergence_grid_sample or of                *)
(* apply_divergence_nn on every small input.                               *)
(***************************************************************************)
WarpIdle ==
    /\ warp_args = [method |-> "none"]
    /\ warp_z = NoTensor
    /\ warp_inputs = <<>>
    /\ warp_pc = "idle"

TilesIdle ==
    /\ ts_args = [h |-> 0, w |-> 0]
    /\ ts_tiles = <<>>
    /\ ts_pc = "idle"

ImageIdle ==
    /\ pi_args = [method |-> "none"]
    /\ pi_im = NoTensor
    /\ pi_im_org = NoTensor
    /\ pi_depth = NoTensor
    /\ pi_calls = <<>>
    /\ pi_left_eye = NoTensor
    /\ pi_right_eye = NoTensor
    /\ pi_sbs = NoTensor
    /\ pi_out = NoTensor
    /\ pi_pc = "idle"
    /\ pi_config = [width |-> 0, height |-> 0]

MainIdle ==
    /\ args = [method |-> "none"]
    /\ input = [isdir |-> FALSE]
    /\ pc = "idle"
    /\ ret = "idle"
    /\ err = "none"
    /\ updated = FALSE
    /\ depth_model = "None"
    /\ side_model = [path |-> "None", fixed_divergence |-> 0]
    /\ reads = <<>>
    /\ files = <<>>
    /\ idx = 0
    /\ cur = [mode |-> "none"]
    /\ frame = 0
    /\ renders = {}
    /\ rendered = <<>>
    /\ yielded = <<>>
    /\ writes = <<>>
    /\ fs_out = {}
    /\ tasks = <<>>
    /\ res_idx = 0

WarpOnly == UNCHANGED <<tileVars, imageVars, mainVars>>

InitWarp ==
    /\ TilesIdle
    /\ ImageIdle
    /\ MainIdle
    /\ \E hw \in SmallDims :
       \E im \in ImagesOf(hw[1], hw[2]), depth \in DepthsOf(hw[1], hw[2]), shift \in {-1, 1} :
          \/ \E divergence \in GridDivergences :
                warp_args = [method |-> "grid_sample", c |-> ToTensor(im), depth |-> depth,
                             divergence |-> divergence, shift |-> shift]
          \/ \E model \in SideModels, cfg \in TileConfigs, divergence \in {20, 25} :
                warp_args = [method |-> "row_flow", c |-> ToTensor(im), depth |-> depth,
                             divergence |-> divergence, shift |-> shift,
                             model |-> model, cfg |-> cfg]
    /\ warp_z = NoTensor
    /\ warp_inputs = <<>>
    /\ warp_pc = "call"

GridSampleCall ==
    /\ warp_pc = "call"
    /\ warp_args.method = "grid_sample"
    /\ warp_z' = apply_divergence_grid_sample(warp_args.c, warp_args.depth,
                                               warp_args.divergence, warp_args.shift)
    /\ warp_pc' = "done"
    /\ UNCHANGED <<warp_args, warp_inputs>>
    /\ WarpOnly

NNCall ==
    /\ warp_pc = "call"
    /\ warp_args.method = "row_flow"
    /\ warp_z' = apply_divergence_nn(warp_args.model, warp_args.cfg, warp_args.c,
                                      warp_args.depth, warp_args.divergence, warp_args.shift)
    /\ warp_inputs' = ModelInputs(warp_args.model, warp_args.cfg, warp_args.c,
                                   warp_args.depth, warp_args.divergence, warp_args.shift)
    /\ warp_pc' = "done"
    /\ UNCHANGED warp_args
    /\ WarpOnly

NextWarp == GridSampleCall \/ NNCall

SpecWarp == InitWarp /\ [][NextWarp]_vars

(***************************************************************************)
(* SpecTiles: the Tile Scheduler of one tiled_render, emitting one tile    *)
(* descriptor per step.                                                    *)
(***************************************************************************)
\* largest extent, tile size and padding of the small schedules
MaxExtent == 5
MaxTile == 4
MaxTilePad == 1

TilesOnly == UNCHANGED <<warpVars, imageVars, mainVars>>

InitTiles ==
    /\ WarpIdle
    /\ ImageIdle
    /\ MainIdle
    /\ \/ \E h \in 1 .. MaxExtent, w \in 1 .. MaxExtent,
             t \in 1 .. MaxTile, p \in 0 .. MaxTilePad :
             ts_args = [h |-> h, w |-> w, tile_size |-> t, pad |-> p]
       \/ \E hw \in {<<600, 400>>, <<400, 600>>, <<256, 256>>, <<243, 1>>} :
             ts_args = [h |-> hw[1], w |-> hw[2],
                        tile_size |-> NNTileConfig.tile_size, pad |-> NNTileConfig.pad]
    /\ ts_tiles = <<>>
    /\ ts_pc = "start"

\* T <= 2P leaves no interior: the scheduler fails
RejectTileSize ==
    /\ ts_pc = "start"
    /\ ts_args.tile_size <= 2 * ts_args.pad
    /\ ts_pc' = "failed"
    /\ UNCHANGED <<ts_args, ts_tiles>>
    /\ TilesOnly

StartTiles ==
    /\ ts_pc = "start"
    /\ ts_args.tile_size > 2 * ts_args.pad
    /\ ts_pc' = "emit"
    /\ UNCHANGED <<ts_args, ts_tiles>>
    /\ TilesOnly

EmitTile ==
    /\ ts_pc = "emit"
    /\ LET all == TileSeq(ts_args.h, ts_args.w, ts_args.tile_size, ts_args.pad)
       IN  /\ Len(ts_tiles) < Len(all)
           /\ ts_tiles' = Append(ts_tiles, all[Len(ts_tiles) + 1])
    /\ UNCHANGED <<ts_args, ts_pc>>
    /\ TilesOnly

FinishTiles ==
    /\ ts_pc = "emit"
    /\ Len(ts_tiles) = Len(TileSeq(ts_args.h, ts_args.w, ts_args.tile_size, ts_args.pad))
    /\ ts_pc' = "done"
    /\ UNCHANGED <<ts_args, ts_tiles>>
    /\ TilesOnly

NextTiles == RejectTileSize \/ StartTiles \/ EmitTile \/ FinishTiles

SpecTiles == InitTiles /\ [][NextTiles]_vars

(***************************************************************************)
(* SpecImage: one call of process_image, statement by statement.           *)
(***************************************************************************)
\* the side of the square image standing for the 256 x 256 scenario
ScenarioDim == 16

\* patterned images of an extent: pixel (r, c) is (r w + c + k) mod levels
PatternImages(h, w) ==
    {[h |-> h, w |-> w,
      px |-> [rc \in Coords(h, w) |-> (rc[1] * w + rc[2] + k) % (PixMax + 1)]] :
        k \in 0 .. 1}

\* what the depth model may answer for an extent: three levels by column,
\* a checkerboard, a flat depth
OracleDepths(h, w) ==
    {[h |-> h, w |-> w, px |-> [rc \in Coords(h, w) |-> Frac(Min(rc[2], 2), 1)]],
     [h |-> h, w |-> w, px |-> [rc \in Coords(h, w) |-> Frac(1 + ((rc[1] + rc[2]) % 2), 1)]],
     [h |-> h, w |-> w, px |-> [rc \in Coords(h, w) |-> Frac(3, 1)]]}

\* args.method, args.divergence and the side model main loads for them
MethodArgs ==
    {[method |-> "grid_sample", divergence |-> d] : d \in GridDivergences}
    \cup {[method |-> "row_flow", divergence |-> m.fixed_divergence,
            side_model |-> m, cfg |-> cfg] : m \in SideModels, cfg \in TileConfigs}

RotateArgs ==
    {[rotate_left |-> FALSE, rotate_right |-> FALSE],
     [rotate_left |-> TRUE, rotate_right |-> FALSE],
     [rotate_left |-> FALSE, rotate_right |-> TRUE]}

PadArgs ==
    {[pad_set |-> FALSE, pad_num |-> 0]}
    \cup {[pad_set |-> TRUE, pad_num |-> n] : n \in 0 .. MaxPadNum}

ImageOnly == UNCHANGED <<warpVars, tileVars, mainVars>>

InitImage ==
    /\ WarpIdle
    /\ TilesIdle
    /\ MainIdle
    /\ \/ \E h \in 1 .. MaxDim, w \in 1 .. MaxDim :
          \E im \in PatternImages(h, w), m \in MethodArgs, r \in RotateArgs, p \in PadArgs :
             /\ pi_im = im
             /\ pi_args = m @@ r @@ p
       \/ /\ pi_im \in PatternImages(ScenarioDim, ScenarioDim)
          /\ pi_args = [method |-> "grid_sample", divergence |-> 20,
                        rotate_left |-> FALSE, rotate_right |-> FALSE,
                        pad_set |-> FALSE, pad_num |-> 0]
    /\ pi_im_org = NoTensor
    /\ pi_depth = NoTensor
    /\ pi_calls = <<>>
    /\ pi_left_eye = NoTensor
    /\ pi_right_eye = NoTensor
    /\ pi_sbs = NoTensor
    /\ pi_out = NoTensor
    /\ pi_pc = "rotate"
    /\ pi_config = VideoOutputConfig(pi_im.w, pi_im.h, pi_args)

\* im.transpose(...); im_org = TF.to_tensor(im)
PI_Rotate ==
    /\ pi_pc = "rotate"
    /\ pi_im' = RotateInput(pi_im, pi_args)
    /\ pi_im_org' = ToTensor(pi_im')
    /\ pi_pc' = "depth"
    /\ UNCHANGED <<pi_config, pi_args, pi_depth, pi_calls, pi_left_eye, pi_right_eye, pi_sbs, pi_out>>
    /\ ImageOnly

\* depth = batch_infer(depth_model, im): same extent as im
PI_Depth ==
    /\ pi_pc = "depth"
    /\ pi_depth' \in OracleDepths(pi_im.h, pi_im.w)
    /\ pi_pc' = "left"
    /\ UNCHANGED <<pi_config, pi_args, pi_im, pi_im_org, pi_calls, pi_left_eye, pi_right_eye,
                   pi_sbs, pi_out>>
    /\ ImageOnly

PI_WarpLeft ==
    /\ pi_pc = "left"
    /\ LET call == WarpCall(pi_args, pi_im_org, pi_depth, LeftShift)
       IN  /\ pi_calls' = Append(pi_calls, call)
           /\ pi_left_eye' = call.z
    /\ pi_pc' = "right"
    /\ UNCHANGED <<pi_config, pi_args, pi_im, pi_im_org, pi_depth, pi_right_eye, pi_sbs, pi_out>>
    /\ ImageOnly

PI_WarpRight ==
    /\ pi_pc = "right"
    /\ LET call == WarpCall(pi_args, pi_im_org, pi_depth, RightShift)
       IN  /\ pi_calls' = Append(pi_calls, call)
           /\ pi_right_eye' = call.z
    /\ pi_pc' = "pad"
    /\ UNCHANGED <<pi_config, pi_args, pi_im, pi_im_org, pi_depth, pi_left_eye, pi_sbs, pi_out>>
    /\ ImageOnly

PI_Pad ==
    /\ pi_pc = "pad"
    /\ pi_left_eye' = PadEye(pi_left_eye, pi_args)
    /\ pi_right_eye' = PadEye(pi_right_eye, pi_args)
    /\ pi_pc' = "cat"
    /\ UNCHANGED <<pi_config, pi_args, pi_im, pi_im_org, pi_depth, pi_calls, pi_sbs, pi_out>>
    /\ ImageOnly

\* sbs = torch.cat(...); return TF.to_pil_image(sbs)
PI_Cat ==
    /\ pi_pc = "cat"
    /\ pi_sbs' = MakeSbs(pi_left_eye, pi_right_eye)
    /\ pi_out' = ToPilImage(pi_sbs')
    /\ pi_pc' = "done"
    /\ UNCHANGED <<pi_config, pi_args, pi_im, pi_im_org, pi_depth, pi_calls, pi_left_eye, pi_right_eye>>
    /\ ImageOnly

NextImage == PI_Rotate \/ PI_Depth \/ PI_WarpLeft \/ PI_WarpRight \/ PI_Pad \/ PI_Cat

SpecImage == InitImage /\ [][NextImage]_vars

(***************************************************************************)
(* Spec: main and the batch drivers (process_images, process_video_full,   *)
(* process_video_keyframes, the file loop of main), with the pool of       *)
(* save_image tasks.  args.output names a directory.                       *)
(***************************************************************************)
\* longest directory listing or text-file list, and most frames of a video
MaxItems == 2
MaxFrames == 2

\* PoolExecutor(max_workers=4)
MaxWorkers == 4

File(b, e) == [base |-> b, ext |-> e]

\* mimetypes.guess_type(name)[0], by extension
MimeOf(f) ==
    CASE f.ext \in {"png", "jpg"} -> "image"
      [] f.ext = "mp4" -> "video"
      [] f.ext = "txt" -> "text/plain"
      [] OTHER -> "None"

\* make_output_filename joined to args.output: the name without its
\* directory and extension, then _LRF, then .mp4 or .png (the base names here
\* hold none of the characters the function replaces by _)
make_output_filename(f, video) ==
    [dir |-> 0, base |-> f.base, suffix |-> "_LRF",
     ext |-> IF video THEN "mp4" ELSE "png", index |-> <<>>]

\* str(n): the decimal digits of n >= 0, most significant first
RECURSIVE Str(_)
Str(n) == IF n < 10 THEN <<n>> ELSE Str(n \div 10) \o <<n % 10>>

\* a slip: the index written without padding
zfill_None(digits, width) == digits

\* digits.zfill(width): zeros on the left up to width, never a cut
zfill(digits, width) ==
    IF Len(digits) >= width THEN digits
    ELSE [i \in 1 .. width - Len(digits) |-> 0] \o digits

\* the width of the frame index in the name of a keyframe
IndexWidth == 8

\* the file of one keyframe, inside output_dir (named after the video):
\* basename(output_dir) + "_" + str(frame.index).zfill(8) + "_LRF.png"
KeyframeFilename(f, index) ==
    [dir |-> f.base, base |-> f.base, suffix |-> "_LRF", ext |-> "png",
     index |-> zfill(Str(index), IndexWidth)]

\* a slip: 3.0 accepted by the check as well
SupportedDivergence_Loose(d) == d = 25 \/ d = 20 \/ d = 30

\* args.divergence != 2.5 and args.divergence != 2.0, negated
SupportedDivergence(d) == d = 25 \/ d = 20

\* the weights main picks for a divergence
ModelPath(d) ==
    IF d = 20 THEN "FLOW_D20_MODEL_PATH"
    ELSE IF d = 25 THEN "FLOW_D25_MODEL_PATH"
    ELSE "unbound"

\* the image files a directory may hold, in listing order
DirFiles(n) == <<File(1, "jpg")>> \o [i \in 1 .. n |-> File(i, "png")]

\* the subsequences of s of length at most n
RECURSIVE SubSeqs(_, _)
SubSeqs(s, n) ==
    IF s = <<>> \/ n = 0 THEN {<<>>}
    ELSE SubSeqs(Tail(s), n) \cup {<<Head(s)>> \o t : t \in SubSeqs(Tail(s), n - 1)}

\* the lines a text file may hold
ListFiles == {File(1, "png"), File(2, "png"), File(3, "mp4"), File(4, "dat")}

ListLines ==
    {s \in UNION {[1 .. n -> ListFiles] : n \in 1 .. MaxItems} :
        \A i, j \in DOMAIN s : i # j => s[i] # s[j]}

\* what args.input may name
Inputs ==
    {[isdir |-> TRUE, file |-> File(0, "dir"), entries |-> s, nframes |-> 0,
      start |-> 0] :
        s \in SubSeqs(DirFiles(MaxItems), MaxItems)}
    \cup {[isdir |-> FALSE, file |-> File(1, "png"), entries |-> <<>>, nframes |-> 0,
            start |-> 0]}
    \cup {[isdir |-> FALSE, file |-> File(3, "mp4"), entries |-> <<>>, nframes |-> n,
            start |-> 0] :
            n \in 1 .. MaxFrames}
    \cup {[isdir |-> FALSE, file |-> File(5, "txt"), entries |-> s,
           nframes |-> IF \E i \in DOMAIN s : s[i].ext = "mp4" THEN MaxFrames ELSE 0,
           start |-> 0] :
            s \in ListLines}

\* every output file a run on an input may touch
OutputsOf(in) ==
    LET fs == {in.file} \cup {in.entries[i] : i \in DOMAIN in.entries}
    IN  {make_output_filename(f, FALSE) : f \in {g \in fs : MimeOf(g) = "image"}}
        \cup {make_output_filename(f, TRUE) : f \in {g \in fs : MimeOf(g) = "video"}}
        \cup {KeyframeFilename(f, 1) : f \in {g \in fs : MimeOf(g) = "video"}}

ArgsSet ==
    [method : {"grid_sample", "row_flow"}, divergence : {20, 25, 30},
     update : BOOLEAN, resume : BOOLEAN, yes : BOOLEAN, keyframe : BOOLEAN,
     rotate_left : {FALSE}, rotate_right : {FALSE}]
    \cup [method : {"row_flow"}, divergence : {20, 30}, update : {FALSE}, resume : {FALSE},
          yes : {FALSE}, keyframe : {FALSE}, rotate_left : BOOLEAN, rotate_right : {TRUE}]

NoUnit == [file |-> File(0, "none"), frame |-> 0, mode |-> "none"]

MainOnly == UNCHANGED <<warpVars, tileVars, imageVars>>

InitRun ==
    /\ pc = "assert"
    /\ ret = "exit"
    /\ err = "none"
    /\ updated = FALSE
    /\ depth_model = "None"
    /\ side_model = [path |-> "None", fixed_divergence |-> 0]
    /\ reads = <<>>
    /\ files = <<>>
    /\ idx = 0
    /\ cur = NoUnit
    /\ frame = 0
    /\ renders = {}
    /\ rendered = <<>>
    /\ yielded = <<>>
    /\ writes = <<>>
    /\ tasks = <<>>
    /\ res_idx = 0

Init ==
    /\ WarpIdle
    /\ TilesIdle
    /\ ImageIdle
    /\ args \in ArgsSet
    /\ input \in Inputs
    /\ fs_out \in SUBSET OutputsOf(input)
    /\ InitRun

\* assert not (args.rotate_left and args.rotate_right)
M_Assert ==
    /\ pc = "assert"
    /\ IF args.rotate_left /\ args.rotate_right
       THEN pc' = "exit" /\ err' = "AssertionError"
       ELSE pc' = "check_divergence" /\ err' = err
    /\ UNCHANGED <<args, input, ret, updated, depth_model, side_model, reads, files,
                   idx, cur, frame, renders, rendered, yielded, writes, fs_out, tasks,
                   res_idx>>
    /\ MainOnly

\* raise ValueError("--method row_flow only supports --divergence 2.5 or 2.0")
M_RejectDivergence ==
    /\ pc = "check_divergence"
    /\ args.method = "row_flow" /\ ~SupportedDivergence(args.divergence)
    /\ pc' = "exit"
    /\ err' = "ValueError"
    /\ UNCHANGED <<args, input, ret, updated, depth_model, side_model, reads, files,
                   idx, cur, frame, renders, rendered, yielded, writes, fs_out, tasks,
                   res_idx>>
    /\ MainOnly

M_AcceptDivergence ==
    /\ pc = "check_divergence"
    /\ ~(args.method = "row_flow" /\ ~SupportedDivergence(args.divergence))
    /\ pc' = "update"
    /\ UNCHANGED <<args, input, ret, err, updated, depth_model, side_model, reads,
                   files, idx, cur, frame, renders, rendered, yielded, writes, fs_out,
                   tasks, res_idx>>
    /\ MainOnly

\* if args.update: update_model()
M_Update ==
    /\ pc = "update"
    /\ updated' = args.update
    /\ pc' = "load_depth"
    /\ UNCHANGED <<args, input, ret, err, depth_model, side_model, reads, files, idx,
                   cur, frame, renders, rendered, yielded, writes, fs_out, tasks,
                   res_idx>>
    /\ MainOnly

\* depth_model = load_depth_model(...)
M_LoadDepth ==
    /\ pc = "load_depth"
    /\ depth_model' = "loaded"
    /\ pc' = "load_side"
    /\ UNCHANGED <<args, input, ret, err, updated, side_model, reads, files, idx, cur,
                   frame, renders, rendered, yielded, writes, fs_out, tasks, res_idx>>
    /\ MainOnly

\* side_model = load_model(model_path, ...); fixed_divergence = args.divergence
M_LoadSide ==
    /\ pc = "load_side"
    /\ IF args.method = "row_flow"
       THEN IF ModelPath(args.divergence) = "unbound"
            THEN /\ err' = "UnboundLocalError"
                 /\ pc' = "exit"
                 /\ side_model' = side_model
            ELSE /\ side_model' = [path |-> ModelPath(args.divergence),
                                   fixed_divergence |-> args.divergence]
                 /\ pc' = "dispatch"
                 /\ err' = err
       ELSE /\ side_model' = side_model
            /\ pc' = "dispatch"
            /\ err' = err
    /\ UNCHANGED <<args, input, ret, updated, depth_model, reads, files, idx, cur,
                   frame, renders, rendered, yielded, writes, fs_out, tasks, res_idx>>
    /\ MainOnly

\* the branch of main on args.input
M_Dispatch ==
    /\ pc = "dispatch"
    /\ IF input.isdir
       THEN /\ pc' = "images_begin"
            /\ UNCHANGED <<files, reads, cur>>
       ELSE IF MimeOf(input.file) = "video"
       THEN /\ pc' = "video"
            /\ cur' = [file |-> input.file, frame |-> 0, mode |-> "video"]
            /\ UNCHANGED <<files, reads>>
       ELSE IF MimeOf(input.file) = "text/plain"
       THEN /\ files' = input.entries
            /\ reads' = Append(reads, input.file)
            /\ pc' = "files_loop"
            /\ cur' = cur
       ELSE /\ files' = <<input.file>>
            /\ pc' = "files_loop"
            /\ UNCHANGED <<reads, cur>>
    /\ ret' = "exit"
    /\ idx' = 0
    /\ UNCHANGED <<args, input, err, updated, depth_model, side_model, frame, renders,
                   rendered, yielded, writes, fs_out, tasks, res_idx>>
    /\ MainOnly

(***************************************************************************)
(* process_image as the drivers see it: a render that starts, and then     *)
(* returns a frame or raises.                                              *)
(***************************************************************************)
\* where a driver goes on once its render has returned
AfterRender(mode) ==
    CASE mode = "images" -> "images_submit"
      [] mode = "keyframes" -> "kf_submit"
      [] mode = "video_full" -> "vf_loop"
      [] OTHER -> "files_save"

\* a slip: the exception of a render caught by the loop over a directory
AfterRenderError_Skips(mode) ==
    IF mode = "images" THEN "images_loop" ELSE "exit"

\* where an exception of the render lands: the with-block of the drivers
\* that hold a pool, the caller of main otherwise
AfterRenderError(mode) ==
    IF mode \in {"images", "keyframes"} THEN "pool_unwind" ELSE "exit"

Render_Return ==
    /\ pc = "rendering"
    /\ renders' = renders \ {cur}
    /\ pc' = AfterRender(cur.mode)
    /\ UNCHANGED <<args, input, ret, err, updated, depth_model, side_model, reads,
                   files, idx, cur, frame, rendered, yielded, writes, fs_out, tasks,
                   res_idx>>
    /\ MainOnly

Render_Raise ==
    /\ pc = "rendering"
    /\ renders' = renders \ {cur}
    /\ err' = "render"
    /\ pc' = AfterRenderError(cur.mode)
    /\ UNCHANGED <<args, input, ret, updated, depth_model, side_model, reads, files,
                   idx, cur, frame, rendered, yielded, writes, fs_out, tasks, res_idx>>
    /\ MainOnly

(***************************************************************************)
(* process_images.                                                         *)
(***************************************************************************)
\* os.makedirs; the loader; with PoolExecutor(max_workers=4) as pool
Images_Begin ==
    /\ pc = "images_begin"
    /\ files' = input.entries
    /\ idx' = 0
    /\ tasks' = <<>>
    /\ pc' = "images_loop"
    /\ UNCHANGED <<args, input, ret, err, updated, depth_model, side_model, reads, cur,
                   frame, renders, rendered, yielded, writes, fs_out, res_idx>>
    /\ MainOnly

\* the loader yields (im, meta); im is None when the file does not decode
Images_Next ==
    /\ pc = "images_loop"
    /\ idx < Len(files)
    /\ \E decoded \in BOOLEAN :
         LET f == files[idx + 1]
             output_filename == make_output_filename(f, FALSE)
             existed == output_filename \in fs_out
             skip == ~decoded \/ (args.resume /\ existed)
         IN  /\ reads' = Append(reads, f)
             /\ yielded' = Append(yielded, [file |-> f, out |-> output_filename,
                                            decoded |-> decoded, existed |-> existed,
                                            skipped |-> skip])
             /\ idx' = idx + 1
             /\ IF skip
                THEN UNCHANGED <<pc, cur, renders, rendered>>
                ELSE /\ cur' = [file |-> f, frame |-> 0, mode |-> "images"]
                     /\ renders' = renders \cup {cur'}
                     /\ rendered' = Append(rendered, cur')
                     /\ pc' = "rendering"
    /\ UNCHANGED <<args, input, ret, err, updated, depth_model, side_model, files,
                   frame, writes, fs_out, tasks, res_idx>>
    /\ MainOnly

\* f = pool.submit(save_image, output, output_filename); futures.append(f)
Images_Submit ==
    /\ pc = "images_submit"
    /\ tasks' = Append(tasks, [func |-> "save_image", unit |-> cur,
                               out |-> make_output_filename(cur.file, FALSE),
                               st |-> "queued"])
    /\ pc' = "images_loop"
    /\ UNCHANGED <<args, input, ret, err, updated, depth_model, side_model, reads,
                   files, idx, cur, frame, renders, rendered, yielded, writes, fs_out,
                   res_idx>>
    /\ MainOnly

Images_LoopEnd ==
    /\ pc = "images_loop"
    /\ idx = Len(files)
    /\ res_idx' = 0
    /\ pc' = "pool_results"
    /\ UNCHANGED <<args, input, ret, err, updated, depth_model, side_model, reads,
                   files, idx, cur, frame, renders, rendered, yielded, writes, fs_out,
                   tasks>>
    /\ MainOnly

(***************************************************************************)
(* The pool and its futures (process_images, process_video_keyframes).     *)
(***************************************************************************)
\* a slip: a future taken as done as soon as a worker has started it
Finished_Started(t) == t.st # "queued"

\* future.done(): the task has returned or raised
Finished(t) == t.st \in {"done", "failed"}

Running == {i \in DOMAIN tasks : tasks[i].st = "running"}

\* a slip: the pool starts a task whenever one is queued
WorkerFree_Unbounded == TRUE

\* a worker thread is free (or can still be created)
WorkerFree == Cardinality(Running) < MaxWorkers

\* a worker takes the oldest queued task
Pool_Start ==
    /\ WorkerFree
    /\ \E i \in DOMAIN tasks :
         /\ tasks[i].st = "queued"
         /\ \A j \in 1 .. i - 1 : tasks[j].st # "queued"
         /\ tasks' = [tasks EXCEPT ![i].st = "running"]
    /\ UNCHANGED <<args, input, pc, ret, err, updated, depth_model, side_model, reads,
                   files, idx, cur, frame, renders, rendered, yielded, writes, fs_out,
                   res_idx>>
    /\ MainOnly

\* save_image(im, output_filename) returns: the file is written
Pool_SaveDone ==
    /\ \E i \in DOMAIN tasks :
         /\ tasks[i].st = "running"
         /\ tasks' = [tasks EXCEPT ![i].st = "done"]
         /\ writes' = Append(writes, tasks[i].out)
         /\ fs_out' = fs_out \cup {tasks[i].out}
    /\ UNCHANGED <<args, input, pc, ret, err, updated, depth_model, side_model, reads,
                   files, idx, cur, frame, renders, rendered, yielded, res_idx>>
    /\ MainOnly

\* save_image raises: the future holds the exception
Pool_SaveFail ==
    /\ \E i \in DOMAIN tasks :
         /\ tasks[i].st = "running"
         /\ tasks' = [tasks EXCEPT ![i].st = "failed"]
    /\ UNCHANGED <<args, input, pc, ret, err, updated, depth_model, side_model, reads,
                   files, idx, cur, frame, renders, rendered, yielded, writes, fs_out,
                   res_idx>>
    /\ MainOnly

\* for f in futures: f.result()
Pool_Result ==
    /\ pc = "pool_results"
    /\ res_idx < Len(tasks)
    /\ Finished(tasks[res_idx + 1])
    /\ IF tasks[res_idx + 1].st = "failed"
       THEN /\ err' = "save"
            /\ pc' = "pool_unwind"
            /\ res_idx' = res_idx
       ELSE /\ res_idx' = res_idx + 1
            /\ UNCHANGED <<err, pc>>
    /\ UNCHANGED <<args, input, ret, updated, depth_model, side_model, reads, files,
                   idx, cur, frame, renders, rendered, yielded, writes, fs_out, tasks>>
    /\ MainOnly

Pool_ResultsEnd ==
    /\ pc = "pool_results"
    /\ res_idx = Len(tasks)
    /\ pc' = "pool_unwind"
    /\ UNCHANGED <<args, input, ret, err, updated, depth_model, side_model, reads,
                   files, idx, cur, frame, renders, rendered, yielded, writes, fs_out,
                   tasks, res_idx>>
    /\ MainOnly

\* the end of the with-block: shutdown(wait=True), then return or re-raise
Pool_Exit ==
    /\ pc = "pool_unwind"
    /\ \A i \in DOMAIN tasks : Finished(tasks[i])
    /\ pc' = IF err = "none" THEN ret ELSE "exit"
    /\ UNCHANGED <<args, input, ret, err, updated, depth_model, side_model, reads,
                   files, idx, cur, frame, renders, rendered, yielded, writes, fs_out,
                   tasks, res_idx>>
    /\ MainOnly

(***************************************************************************)
(* The file loop of main (a text file of inputs, or one input file).       *)
(***************************************************************************)
Files_Next ==
    /\ pc = "files_loop"
    /\ idx < Len(files)
    /\ idx' = idx + 1
    /\ LET f == files[idx + 1]
           mime == MimeOf(f)
       IN  IF mime = "None"
           THEN \* mime.startswith on None
                /\ err' = "AttributeError"
                /\ pc' = "exit"
                /\ UNCHANGED <<cur, ret, reads, yielded, renders, rendered>>
           ELSE IF mime = "video"
           THEN /\ cur' = [file |-> f, frame |-> 0, mode |-> "video"]
                /\ ret' = "files_loop"
                /\ pc' = "video"
                /\ UNCHANGED <<err, reads, yielded, renders, rendered>>
           ELSE IF mime = "image"
           THEN \E decoded \in BOOLEAN :
                /\ reads' = Append(reads, f)
                /\ yielded' = Append(yielded,
                       [file |-> f, out |-> make_output_filename(f, FALSE),
                        decoded |-> decoded,
                        existed |-> make_output_filename(f, FALSE) \in fs_out,
                        skipped |-> FALSE])
                /\ cur' = [file |-> f, frame |-> 0, mode |-> "files"]
                /\ IF decoded
                   THEN /\ renders' = renders \cup {cur'}
                        /\ rendered' = Append(rendered, cur')
                        /\ pc' = "rendering"
                        /\ UNCHANGED <<err, ret>>
                   ELSE \* process_image(None, ...) raises
                        /\ err' = "decode"
                        /\ pc' = "exit"
                        /\ UNCHANGED <<ret, renders, rendered>>
           ELSE UNCHANGED <<pc, err, cur, ret, reads, yielded, renders, rendered>>
    /\ UNCHANGED <<args, input, updated, depth_model, side_model, files, frame, writes,
                   fs_out, tasks, res_idx>>
    /\ MainOnly

\* output.save(output_filename), on the calling thread
Files_Save ==
    /\ pc = "files_save"
    /\ \/ /\ writes' = Append(writes, make_output_filename(cur.file, FALSE))
          /\ fs_out' = fs_out \cup {make_output_filename(cur.file, FALSE)}
          /\ pc' = "files_loop"
          /\ err' = err
       \/ /\ err' = "save"
          /\ pc' = "exit"
          /\ UNCHANGED <<writes, fs_out>>
    /\ UNCHANGED <<args, input, ret, updated, depth_model, side_model, reads, files,
                   idx, cur, frame, renders, rendered, yielded, tasks, res_idx>>
    /\ MainOnly

Files_End ==
    /\ pc = "files_loop"
    /\ idx = Len(files)
    /\ pc' = "exit"
    /\ UNCHANGED <<args, input, ret, err, updated, depth_model, side_model, reads,
                   files, idx, cur, frame, renders, rendered, yielded, writes, fs_out,
                   tasks, res_idx>>
    /\ MainOnly

(***************************************************************************)
(* process_video: process_video_full and process_video_keyframes.          *)
(***************************************************************************)
\* if args.resume and path.exists(output_filename): return
Video_ResumeSkip ==
    /\ pc = "video"
    /\ ~args.keyframe
    /\ args.resume /\ make_output_filename(cur.file, TRUE) \in fs_out
    /\ yielded' = Append(yielded, [file |-> cur.file, out |-> make_output_filename(cur.file, TRUE),
                                   decoded |-> TRUE, existed |-> TRUE, skipped |-> TRUE])
    /\ pc' = ret
    /\ UNCHANGED <<args, input, ret, err, updated, depth_model, side_model, reads,
                   files, idx, cur, frame, renders, rendered, writes, fs_out, tasks,
                   res_idx>>
    /\ MainOnly

\* if not args.yes and path.exists(output_filename): ask
Video_Prompt ==
    /\ pc = "video"
    /\ ~args.keyframe
    /\ ~(args.resume /\ make_output_filename(cur.file, TRUE) \in fs_out)
    /\ ~args.yes /\ make_output_filename(cur.file, TRUE) \in fs_out
    /\ \E y \in BOOLEAN : pc' = IF y THEN "vf_open" ELSE ret
    /\ UNCHANGED <<args, input, ret, err, updated, depth_model, side_model, reads,
                   files, idx, cur, frame, renders, rendered, yielded, writes, fs_out,
                   tasks, res_idx>>
    /\ MainOnly

Video_NoPrompt ==
    /\ pc = "video"
    /\ ~args.keyframe
    /\ ~(args.resume /\ make_output_filename(cur.file, TRUE) \in fs_out)
    /\ ~(~args.yes /\ make_output_filename(cur.file, TRUE) \in fs_out)
    /\ pc' = "vf_open"
    /\ UNCHANGED <<args, input, ret, err, updated, depth_model, side_model, reads,
                   files, idx, cur, frame, renders, rendered, yielded, writes, fs_out,
                   tasks, res_idx>>
    /\ MainOnly

\* VU.process_video opens the input and creates the output
VideoFull_Open ==
    /\ pc = "vf_open"
    /\ reads' = Append(reads, cur.file)
    /\ yielded' = Append(yielded, [file |-> cur.file, out |-> make_output_filename(cur.file, TRUE),
                                   decoded |-> TRUE,
                                   existed |-> make_output_filename(cur.file, TRUE) \in fs_out,
                                   skipped |-> FALSE])
    /\ writes' = Append(writes, make_output_filename(cur.file, TRUE))
    /\ fs_out' = fs_out \cup {make_output_filename(cur.file, TRUE)}
    /\ frame' = 0
    /\ pc' = "vf_loop"
    /\ UNCHANGED <<args, input, ret, err, updated, depth_model, side_model, files, idx,
                   cur, renders, rendered, tasks, res_idx>>
    /\ MainOnly

\* frame_callback(frame): process_image on the frame
VideoFull_Frame ==
    /\ pc = "vf_loop"
    /\ frame < input.nframes
    /\ frame' = frame + 1
    /\ cur' = [file |-> cur.file, frame |-> frame + 1, mode |-> "video_full"]
    /\ renders' = renders \cup {cur'}
    /\ rendered' = Append(rendered, cur')
    /\ pc' = "rendering"
    /\ UNCHANGED <<args, input, ret, err, updated, depth_model, side_model, reads,
                   files, idx, yielded, writes, fs_out, tasks, res_idx>>
    /\ MainOnly

VideoFull_End ==
    /\ pc = "vf_loop"
    /\ frame = input.nframes
    /\ pc' = ret
    /\ UNCHANGED <<args, input, ret, err, updated, depth_model, side_model, reads,
                   files, idx, cur, frame, renders, rendered, yielded, writes, fs_out,
                   tasks, res_idx>>
    /\ MainOnly

\* os.makedirs(output_dir); with PoolExecutor(max_workers=4) as pool
Keyframes_Begin ==
    /\ pc = "video"
    /\ args.keyframe
    /\ reads' = Append(reads, cur.file)
    /\ tasks' = <<>>
    /\ frame' = 0
    /\ pc' = "kf_loop"
    /\ UNCHANGED <<args, input, ret, err, updated, depth_model, side_model, files, idx,
                   cur, renders, rendered, yielded, writes, fs_out, res_idx>>
    /\ MainOnly

\* frame_callback(frame) of a keyframe: process_image comes first
Keyframes_Frame ==
    /\ pc = "kf_loop"
    /\ frame < input.nframes
    /\ frame' = frame + 1
    /\ cur' = [file |-> cur.file, frame |-> input.start + frame + 1, mode |-> "keyframes"]
    /\ yielded' = Append(yielded, [file |-> cur.file,
                                   out |-> KeyframeFilename(cur.file, cur'.frame),
                                   decoded |-> TRUE,
                                   existed |-> KeyframeFilename(cur.file, cur'.frame) \in fs_out,
                                   skipped |-> FALSE])
    /\ renders' = renders \cup {cur'}
    /\ rendered' = Append(rendered, cur')
    /\ pc' = "rendering"
    /\ UNCHANGED <<args, input, ret, err, updated, depth_model, side_model, reads,
                   files, idx, writes, fs_out, tasks, res_idx>>
    /\ MainOnly

\* f = pool.submit(save_image, output, output_filename); futures.append(f)
Keyframes_Submit ==
    /\ pc = "kf_submit"
    /\ tasks' = Append(tasks, [func |-> "save_image", unit |-> cur,
                               out |-> KeyframeFilename(cur.file, cur.frame),
                               st |-> "queued"])
    /\ pc' = "kf_loop"
    /\ UNCHANGED <<args, input, ret, err, updated, depth_model, side_model, reads,
                   files, idx, cur, frame, renders, rendered, yielded, writes, fs_out,
                   res_idx>>
    /\ MainOnly

Keyframes_End ==
    /\ pc = "kf_loop"
    /\ frame = input.nframes
    /\ res_idx' = 0
    /\ pc' = "pool_results"
    /\ UNCHANGED <<args, input, ret, err, updated, depth_model, side_model, reads,
                   files, idx, cur, frame, renders, rendered, yielded, writes, fs_out,
                   tasks>>
    /\ MainOnly

PoolNext ==
    \/ Pool_Start \/ Pool_SaveDone \/ Pool_SaveFail
    \/ Pool_Result \/ Pool_ResultsEnd \/ Pool_Exit

Next ==
    \/ M_Assert \/ M_RejectDivergence \/ M_AcceptDivergence \/ M_Update
    \/ M_LoadDepth \/ M_LoadSide \/ M_Dispatch
    \/ Render_Return \/ Render_Raise
    \/ Images_Begin \/ Images_Next \/ Images_Submit \/ Images_LoopEnd
    \/ PoolNext
    \/ Files_Next \/ Files_Save \/ Files_End
    \/ Video_ResumeSkip \/ Video_Prompt \/ Video_NoPrompt
    \/ VideoFull_Open \/ VideoFull_Frame \/ VideoFull_End
    \/ Keyframes_Begin \/ Keyframes_Frame \/ Keyframes_Submit \/ Keyframes_End

Spec == Init /\ [][Next]_vars

(***************************************************************************)
(* SpecPool: the two drivers that hold a pool, on inputs long enough to    *)
(* fill it.                                                                *)
(***************************************************************************)
\* most images of a directory and most keyframes of a video
MaxPoolItems == 6

PoolInputs ==
    {[isdir |-> TRUE, file |-> File(0, "dir"), entries |-> [i \in 1 .. n |-> File(i, "png")],
      nframes |-> 0, start |-> 0] : n \in 1 .. MaxPoolItems}
    \cup {[isdir |-> FALSE, file |-> File(3, "mp4"), entries |-> <<>>, nframes |-> n,
            start |-> 0] : n \in 1 .. MaxPoolItems}

InitPool ==
    /\ WarpIdle
    /\ TilesIdle
    /\ ImageIdle
    /\ input \in PoolInputs
    /\ args = [method |-> "grid_sample", divergence |-> 20, update |-> FALSE,
               resume |-> FALSE, yes |-> FALSE, keyframe |-> ~input.isdir,
               rotate_left |-> FALSE, rotate_right |-> FALSE]
    /\ fs_out = {}
    /\ pc = IF input.isdir THEN "images_begin" ELSE "video"
    /\ ret = "exit"
    /\ err = "none"
    /\ updated = FALSE
    /\ depth_model = "loaded"
    /\ side_model = [path |-> "None", fixed_divergence |-> 0]
    /\ reads = <<>>
    /\ files = <<>>
    /\ idx = 0
    /\ cur = IF input.isdir THEN NoUnit ELSE [file |-> input.file, frame |-> 0, mode |-> "video"]
    /\ frame = 0
    /\ renders = {}
    /\ rendered = <<>>
    /\ yielded = <<>>
    /\ writes = <<>>
    /\ tasks = <<>>
    /\ res_idx = 0

NextPool ==
    \/ Images_Begin \/ Images_Next \/ Images_Submit \/ Images_LoopEnd
    \/ Keyframes_Begin \/ Keyframes_Frame \/ Keyframes_Submit \/ Keyframes_End
    \/ Render_Return \/ Render_Raise
    \/ PoolNext

SpecPool == InitPool /\ [][NextPool]_vars

(***************************************************************************)
(* SpecKeyframes: process_video_keyframes on videos whose keyframes have   *)
(* frame indices of different lengths.                                     *)
(***************************************************************************)
\* most keyframes of a video
MaxKeyframes == 3

\* the frame index before the first keyframe of a video: the indices of its
\* keyframes then cross 9/10, 99/100 and 99999999/100000000
StartIndices == {0, 7, 8, 97, 98, 100000000 - MaxKeyframes}

KeyframeInputs ==
    {[isdir |-> FALSE, file |-> File(3, "mp4"), entries |-> <<>>, nframes |-> n,
      start |-> st] : n \in 1 .. MaxKeyframes, st \in StartIndices}

InitKeyframes ==
    /\ WarpIdle
    /\ TilesIdle
    /\ ImageIdle
    /\ input \in KeyframeInputs
    /\ args \in [method : {"grid_sample"}, divergence : {20}, update : {FALSE},
                  resume : BOOLEAN, yes : {FALSE}, keyframe : {TRUE},
                  rotate_left : {FALSE}, rotate_right : {FALSE}]
    /\ fs_out = {}
    /\ pc = "video"
    /\ ret = "exit"
    /\ err = "none"
    /\ updated = FALSE
    /\ depth_model = "loaded"
    /\ side_model = [path |-> "None", fixed_divergence |-> 0]
    /\ reads = <<>>
    /\ files = <<>>
    /\ idx = 0
    /\ cur = [file |-> input.file, frame |-> 0, mode |-> "video"]
    /\ frame = 0
    /\ renders = {}
    /\ rendered = <<>>
    /\ yielded = <<>>
    /\ writes = <<>>
    /\ tasks = <<>>
    /\ res_idx = 0

NextKeyframes ==
    \/ Keyframes_Begin \/ Keyframes_Frame \/ Keyframes_Submit \/ Keyframes_End
    \/ Render_Return \/ Render_Raise
    \/ PoolNext

SpecKeyframes == InitKeyframes /\ [][NextKeyframes]_vars

(***************************************************************************)
(* Properties of the warps (SpecWarp).                                     *)
(***************************************************************************)
WarpDone(method) == warp_pc = "done" /\ warp_args.method = method

\* C5: the learned warp for shift = +1 is the mirror of the learned warp for
\* shift = -1 on the mirrored image and depth, pixel for pixel, and the model
\* is given the same metadata (depth min and max included) in both
\* directions; for shift = -1 the render runs on the unmirrored inputs and
\* its result is returned unmirrored.
C5_MirrorSymmetry ==
    WarpDone("row_flow") =>
        LET a == warp_args
        IN  /\ a.shift > 0 =>
                /\ warp_z = Flip(apply_divergence_nn(a.model, a.cfg, Flip(a.c),
                                                     Flip(a.depth), a.divergence, -1))
                /\ warp_inputs = ModelInputs(a.model, a.cfg, Flip(a.c), Flip(a.depth),
                                             a.divergence, -1)
            /\ a.shift < 0 =>
                warp_z = tiled_render(a.c, a.depth, a.model, a.cfg, a.c.w, a.divergence,
                                      DepthMin(a.depth), DepthMax(a.depth))

\* a shift = +1 call on several tiles whose result is neither the input nor
\* its own mirror image
C5_Witness ==
    /\ WarpDone("row_flow")
    /\ warp_args.shift = 1
    /\ Len(warp_inputs) > 1
    /\ warp_z # warp_args.c
    /\ warp_z # Flip(warp_z)
    /\ warp_args.depth # Flip(warp_args.depth)

\* C6: with divergence = 0 the closed-form warp returns the image unchanged,
\* for every depth and both shift directions: every index shift is 0 and
\* every output pixel samples the source at its own column.
C6_ZeroDivergenceIdentity ==
    (WarpDone("grid_sample") /\ warp_args.divergence = 0) =>
        /\ warp_z = warp_args.c
        /\ \A rc \in DOMAIN warp_args.c.px :
              LET ishift == IndexShift(warp_args.depth.px[rc], 0, warp_args.shift)
              IN  /\ ishift[1] = 0
                  /\ SourceX(rc[2], warp_args.c.w, ishift) = Frac(rc[2], 1)

\* a divergence-0 call on an image and a depth that both vary
C6_Witness ==
    /\ WarpDone("grid_sample")
    /\ warp_args.divergence = 0
    /\ warp_args.shift = -1
    /\ warp_args.c.w = MaxDim
    /\ warp_args.c # Flip(warp_args.c)
    /\ DepthMin(warp_args.depth) # DepthMax(warp_args.depth)

(***************************************************************************)
(* Properties of the Tile Scheduler (SpecTiles).                           *)
(***************************************************************************)
InTile(t, r, c) == r >= t.top /\ r < t.top + t.h /\ c >= t.left /\ c < t.left + t.w

\* C7: for tile size T > 2P (the learned warp's T = 256, P = 7 among them)
\* the scheduler does not fail, every destination region lies within the
\* image, no two overlap, the tiles come in row-major order, and once the
\* scheduler is done every pixel lies in exactly one destination region.
C7_TilingCoverage ==
    /\ ts_args.tile_size > 2 * ts_args.pad => ts_pc # "failed"
    /\ ts_args.tile_size = TileSize => ts_pc # "failed"
    /\ \A n \in DOMAIN ts_tiles :
          LET t == ts_tiles[n]
          IN  /\ t.h > 0 /\ t.w > 0
              /\ t.top >= 0 /\ t.top + t.h <= ts_args.h
              /\ t.left >= 0 /\ t.left + t.w <= ts_args.w
              /\ \A m \in 1 .. n - 1 :
                    LET u == ts_tiles[m]
                    IN  \/ u.top + u.h <= t.top \/ t.top + t.h <= u.top
                        \/ u.left + u.w <= t.left \/ t.left + t.w <= u.left
              /\ n > 1 =>
                    LET u == ts_tiles[n - 1]
                    IN  \/ t.top = u.top /\ t.left = u.left + u.w
                        \/ t.top = u.top + u.h /\ t.left = 0
    /\ ts_pc = "done" =>
          \A r \in 0 .. ts_args.h - 1, c \in 0 .. ts_args.w - 1 :
              Cardinality({n \in DOMAIN ts_tiles : InTile(ts_tiles[n], r, c)}) = 1

\* the 600 x 400 image of the learned warp, scheduled to the end on six tiles
C7_Witness ==
    /\ ts_pc = "done"
    /\ ts_args = [h |-> 400, w |-> 600, tile_size |-> 256, pad |-> 7]
    /\ Len(ts_tiles) = 6

(***************************************************************************)
(* Properties of process_image (SpecImage).                                *)
(***************************************************************************)
\* the extent of the image after the rotation, once process_image is past it
PiH == pi_im.h

PiW == pi_im.w

PiPadH == IF pi_args.pad_set THEN IntScaled(PiH, pi_args.pad_num) - (IntScaled(PiH, pi_args.pad_num) % 2) ELSE 0

PiPadW == IF pi_args.pad_set THEN IntScaled(PiW, pi_args.pad_num) \div 2 ELSE 0

IsImageOfExtent(x, h, w) == x.h = h /\ x.w = w /\ DOMAIN x.px = Coords(h, w)

\* C1 as stated: the frame is (H + pad_h) high and 2 (W + pad_w) wide, with
\* pad_h = int(H p) rounded down to even and pad_w = int(W p) // 2.
C1_SizeLaw_AsStated ==
    pi_pc = "done" => IsImageOfExtent(pi_out, PiH + PiPadH, 2 * (PiW + PiPadW))

\* C1 amended: the frame is (H + pad_h) high and 2 (W + 2 pad_w) wide (each
\* eye is padded by pad_w on both sides); with pad unset it is H by 2 W.
C1_SizeLaw ==
    pi_pc = "done" =>
        /\ IsImageOfExtent(pi_out, PiH + PiPadH, 2 * (PiW + 2 * PiPadW))
        /\ IsImageOfExtent(pi_sbs, PiH + PiPadH, 2 * (PiW + 2 * PiPadW))
        /\ PiPadH % 2 = 0
        /\ ~pi_args.pad_set => IsImageOfExtent(pi_out, PiH, 2 * PiW)

\* a rotated, padded frame where int(H p) is odd and pad_w > 0
C1_Witness ==
    /\ pi_pc = "done"
    /\ pi_args.pad_set
    /\ pi_args.rotate_left
    /\ PiH # PiW
    /\ PiPadW > 0
    /\ IntScaled(PiH, pi_args.pad_num) % 2 = 1
    /\ PiPadH > 0

\* the 256 x 256 scenario on tensors whose pixels are never read
ScenarioExtent ==
    LET blank == [h |-> 256, w |-> 256, px |-> [rc \in Coords(256, 256) |-> Zero]]
        nopad == [pad_set |-> FALSE, pad_num |-> 0]
        sbs == MakeSbs(PadEye(blank, nopad), PadEye(blank, nopad))
    IN  <<sbs.w, sbs.h>>

\* C2: process_image calls the selected warp exactly twice, on the same
\* image, depth and divergence, first with shift = -1, then with shift = +1;
\* the left half of the frame is the shift = -1 eye view and the right half
\* the shift = +1 eye view (as padded), pixel for pixel, also in the returned
\* image; with pad unset a square input of side n gives a 2n x n frame.
C2_TwoWarpsConcatenated ==
    pi_pc = "done" =>
        LET wp == pi_left_eye.w
        IN  /\ Len(pi_calls) = 2
            /\ pi_calls[1].shift = -1 /\ pi_calls[2].shift = 1
            /\ \A i \in 1 .. 2 :
                  /\ pi_calls[i].method = pi_args.method
                  /\ pi_calls[i].c = pi_im_org
                  /\ pi_calls[i].divergence = pi_args.divergence
            /\ pi_calls[1].depth = pi_calls[2].depth
            /\ pi_left_eye = PadEye(pi_calls[1].z, pi_args)
            /\ pi_right_eye = PadEye(pi_calls[2].z, pi_args)
            /\ pi_sbs.w = 2 * wp
            /\ \A r \in 0 .. pi_sbs.h - 1, c \in 0 .. wp - 1 :
                  /\ pi_sbs.px[<<r, c>>] = pi_left_eye.px[<<r, c>>]
                  /\ pi_sbs.px[<<r, wp + c>>] = pi_right_eye.px[<<r, c>>]
                  /\ pi_out.px[<<r, c>>] = ToPilImage(pi_left_eye).px[<<r, c>>]
                  /\ pi_out.px[<<r, wp + c>>] = ToPilImage(pi_right_eye).px[<<r, c>>]
            /\ (~pi_args.pad_set /\ PiH = PiW) =>
                  IsImageOfExtent(pi_out, PiH, 2 * PiH)
            /\ ScenarioExtent = <<512, 256>>

\* the square scenario, pad unset, divergence 2.0, with two different eyes
C2_Witness ==
    /\ pi_pc = "done"
    /\ ~pi_args.pad_set
    /\ pi_args.divergence = 20
    /\ IsImageOfExtent(pi_im, ScenarioDim, ScenarioDim)
    /\ pi_left_eye # pi_right_eye
    /\ ToPilImage(pi_left_eye) # ToPilImage(pi_right_eye)

\* C3: with pad set, each padded eye holds the unpadded eye unchanged at
\* rows [pad_h, pad_h + H) and columns [pad_w, pad_w + W), nothing below it,
\* pad_w columns on either side and pad_h rows above, and the fill value 0
\* everywhere outside; both eyes get the same padding.
C3_PaddingLayout ==
    (pi_pc \in {"cat", "done"} /\ pi_args.pad_set) =>
        \A i \in 1 .. 2 :
            LET eye == IF i = 1 THEN pi_left_eye ELSE pi_right_eye
                raw == pi_calls[i].z
            IN  /\ raw.h = PiH /\ raw.w = PiW
                /\ IsImageOfExtent(eye, PiH + PiPadH, PiW + 2 * PiPadW)
                /\ \A rc \in DOMAIN eye.px :
                      IF /\ rc[1] >= PiPadH /\ rc[1] < PiPadH + PiH
                         /\ rc[2] >= PiPadW /\ rc[2] < PiPadW + PiW
                      THEN eye.px[rc] = raw.px[<<rc[1] - PiPadH, rc[2] - PiPadW>>]
                      ELSE eye.px[rc] = Frac(0, 1)

\* a padded eye with rows above, columns on both sides, and a bright border
\* pixel that replication would have copied outward
C3_Witness ==
    /\ pi_pc = "cat"
    /\ pi_args.pad_set
    /\ PiPadH > 0
    /\ PiPadW > 0
    /\ pi_calls[1].z.px[<<0, 0>>] # Frac(0, 1)
    /\ pi_calls[2].z.px[<<PiH - 1, PiW - 1>>] # Frac(0, 1)
    /\ pi_left_eye # pi_right_eye

(***************************************************************************)
(* Properties of main and the drivers (Spec, SpecPool).                    *)
(***************************************************************************)
UnsupportedRowFlow == args.method = "row_flow" /\ args.divergence \notin {20, 25}

NothingStarted ==
    /\ updated = FALSE
    /\ depth_model = "None"
    /\ side_model.path = "None"
    /\ reads = <<>>
    /\ renders = {}
    /\ rendered = <<>>
    /\ tasks = <<>>
    /\ writes = <<>>

\* C4: row_flow with a divergence other than 2.0 or 2.5 raises the
\* configuration error before the model update, before either model is
\* loaded, before any input is read and before any render; with a supported
\* divergence or with grid_sample no configuration error is raised, and the
\* path of the side model is the d20 one for 2.0 and the d25 one for 2.5.
C4_ConfigErrorFirst ==
    /\ err = "ValueError" => UnsupportedRowFlow /\ NothingStarted /\ pc = "exit"
    /\ UnsupportedRowFlow =>
         /\ NothingStarted
         /\ pc \in {"assert", "check_divergence", "exit"}
         /\ pc = "exit" =>
              err = IF args.rotate_left /\ args.rotate_right
                    THEN "AssertionError" ELSE "ValueError"
    /\ ~UnsupportedRowFlow => err \notin {"ValueError", "UnboundLocalError"}
    /\ (args.method = "row_flow"
          /\ pc \notin {"assert", "check_divergence", "update", "load_depth", "load_side", "exit"})
         => /\ side_model.path \in {"FLOW_D20_MODEL_PATH", "FLOW_D25_MODEL_PATH"}
            /\ side_model.path = "FLOW_D20_MODEL_PATH" <=> args.divergence = 20
            /\ side_model.path = "FLOW_D25_MODEL_PATH" <=> args.divergence = 25
    /\ args.method = "grid_sample" => side_model.path = "None"

C4_Witness ==
    /\ pc = "exit"
    /\ err = "ValueError"
    /\ args.method = "row_flow"
    /\ args.divergence = 30
    /\ args.update
    /\ input.isdir /\ Len(input.entries) = MaxItems

MultiItemRun == input.isdir \/ MimeOf(input.file) = "text/plain"

ItemFailure == err \in {"decode", "render", "save", "AttributeError"}

\* the items of a run that were not skipped
Started == {i \in DOMAIN yielded : ~yielded[i].skipped}

\* C8 as stated: a run over several items that ends, with or without the
\* failure of an item, has gone through all of its items.
C8_NeverAborts_AsStated ==
    (pc = "exit" /\ MultiItemRun /\ (err = "none" \/ ItemFailure)) => idx = Len(files)

\* C8: an exception of an item is never caught: the main thread handles no
\* further item after it.  In a directory an image that does not decode is
\* skipped, and a save that fails in the pool stops neither the items after
\* it nor the other saves: its exception is raised once every item has been
\* handled.  A render that fails stops the directory at that item, after the
\* saves already submitted have finished.  In a list of files the first
\* failure of any kind stops the run at that item.
C8_FailureHandling ==
    /\ err # "none" => pc \in {"exit", "pool_unwind"}
    /\ (pc = "exit" /\ input.isdir) =>
         /\ err \in {"none", "save", "render", "ValueError", "AssertionError",
                     "UnboundLocalError"}
         /\ \A i \in DOMAIN tasks : Finished(tasks[i])
         /\ \A i \in DOMAIN yielded :
              yielded[i].skipped <=> (~yielded[i].decoded
                                        \/ (args.resume /\ yielded[i].existed))
         /\ err \in {"none", "save"} =>
              /\ depth_model = "loaded" =>
                   /\ Len(yielded) = Len(input.entries)
                   /\ \A i \in DOMAIN yielded : yielded[i].file = input.entries[i]
              /\ Len(tasks) = Cardinality(Started)
              /\ \A i \in Started : \E j \in DOMAIN tasks : tasks[j].out = yielded[i].out
              /\ err = "save" <=> \E j \in DOMAIN tasks : tasks[j].st = "failed"
         /\ err = "render" =>
              /\ Len(yielded) = idx
              /\ cur.file = yielded[idx].file
              /\ Len(tasks) = Cardinality(Started) - 1
    /\ (pc = "exit" /\ MimeOf(input.file) = "text/plain" /\ ItemFailure) =>
         /\ idx >= 1
         /\ cur.file = files[idx] \/ err = "AttributeError"
         /\ \A i \in DOMAIN yielded : \E j \in 1 .. idx : yielded[i].file = files[j]
    /\ (pc = "exit" /\ MimeOf(input.file) = "text/plain" /\ err = "none"
          /\ depth_model = "loaded") => idx = Len(files)

C8_Witness ==
    /\ pc = "exit"
    /\ input.isdir
    /\ err = "save"
    /\ Len(tasks) = 2
    /\ tasks[1].st = "failed"
    /\ tasks[2].st = "done"
    /\ tasks[2].out \in fs_out

\* C9 as stated: with resume set, an item whose output exists when the item
\* is reached is skipped before any work on it starts, in every mode.
C9_ResumeEveryMode ==
    \A i \in DOMAIN yielded : (args.resume /\ yielded[i].existed) => yielded[i].skipped

\* C10: at most 4 save_image tasks execute at a time; every task of the pool
\* is save_image of a frame whose render has returned; at most one render is
\* in flight and it is the one the main thread is in; a submit returns with
\* the save still queued, and the next item may be rendered whatever the
\* state of the pool.
C10_PoolBounded ==
    /\ [](/\ Cardinality(Running) <= 4
          /\ \A i \in DOMAIN tasks :
               /\ tasks[i].func = "save_image"
               /\ tasks[i].unit \notin renders
               /\ \E j \in DOMAIN rendered : rendered[j] = tasks[i].unit
          /\ Cardinality(renders) <= 1
          /\ renders # {} <=> pc = "rendering"
          /\ renders # {} => renders = {cur}
          /\ (pc = "images_loop" /\ idx < Len(files)) => ENABLED Images_Next
          /\ (pc = "kf_loop" /\ frame < input.nframes) => ENABLED Keyframes_Frame)
    /\ [][(Images_Submit \/ Keyframes_Submit) =>
            /\ tasks'[Len(tasks')].st = "queued"
            /\ pc' \in {"images_loop", "kf_loop"}]_vars

C10_Witness ==
    /\ Cardinality(Running) = 4
    /\ \E i \in DOMAIN tasks : tasks[i].st = "queued"
    /\ pc = "rendering"

\* the characters of the path of an output file below args.output, as codes:
\* the directory and the base name (one code each), then for a keyframe "_"
\* and the digits, then "_LRF" and the extension
PathChars(out) ==
    <<1000 + out.dir, 47, 1000 + out.base>>
    \o (IF out.index = <<>> THEN <<>> ELSE <<95>> \o [i \in DOMAIN out.index |-> 48 + out.index[i]])
    \o <<95, 76, 82, 70, 46>>
    \o (IF out.ext = "png" THEN <<112, 110, 103>> ELSE <<109, 112, 52>>)

\* s < t in the order of strings
RECURSIVE LexLess(_, _)
LexLess(s, t) ==
    IF t = <<>> THEN FALSE
    ELSE IF s = <<>> THEN TRUE
    ELSE IF Head(s) # Head(t) THEN Head(s) < Head(t)
    ELSE LexLess(Tail(s), Tail(t))

KeyframeTasks == {i \in DOMAIN tasks : tasks[i].unit.mode = "keyframes"}

\* C11: the name of a keyframe holds its frame index padded with zeros to 8
\* digits, followed by _LRF.png; two keyframes of one run with different
\* indices have different names; and for indices below 10^8 the names are
\* ordered as strings exactly as the indices are ordered as numbers, whatever
\* the order in which the files are written.
C11_KeyframeNames ==
    /\ \A i \in KeyframeTasks :
         /\ tasks[i].out.suffix = "_LRF" /\ tasks[i].out.ext = "png"
         /\ Len(tasks[i].out.index) >= 8
         /\ tasks[i].unit.frame < 100000000 => Len(tasks[i].out.index) = 8
    /\ \A i, j \in KeyframeTasks :
         /\ tasks[i].unit.frame # tasks[j].unit.frame
              => PathChars(tasks[i].out) # PathChars(tasks[j].out)
         /\ (tasks[i].unit.frame < 100000000 /\ tasks[j].unit.frame < 100000000)
              => (LexLess(PathChars(tasks[i].out), PathChars(tasks[j].out))
                    <=> tasks[i].unit.frame < tasks[j].unit.frame)
    /\ \A i, j \in KeyframeTasks : i # j => tasks[i].unit.frame # tasks[j].unit.frame

\* the keyframes 9 and 10 of one run, 10 written first
C11_Witness ==
    /\ Len(writes) >= 2
    /\ \E i, j \in KeyframeTasks :
         /\ tasks[i].unit.frame = 9
         /\ tasks[j].unit.frame = 10
         /\ writes[1] = tasks[j].out
         /\ writes[2] = tasks[i].out
         /\ LexLess(PathChars(writes[2]), PathChars(writes[1]))

SaveFailed == \E i \in DOMAIN tasks : tasks[i].st = "failed"

AllSavesOver == \A i \in DOMAIN tasks : tasks[i].st \in {"done", "failed"}

\* every frame whose render returned has been submitted once, in order
SubmittedOnce ==
    /\ \A i \in DOMAIN tasks : tasks[i].unit = rendered[i]
    /\ \A i, j \in DOMAIN rendered : i # j => rendered[i] # rendered[j]
    /\ Len(tasks) <= Len(rendered)
    /\ Len(rendered) <= Len(tasks) + 1
    /\ Len(rendered) = Len(tasks) + 1 =>
         \/ pc \in {"rendering", "images_submit", "kf_submit"}
         \/ err = "render"

\* C12 as stated: a driver returns only once every save it submitted is
\* over, every rendered item is submitted exactly once, and whenever a save
\* failed it is the failure of a save that the caller receives.
C12_SaveFailureRaised_AsStated ==
    /\ pc = "exit" => AllSavesOver
    /\ SubmittedOnce
    /\ (pc = "exit" /\ SaveFailed) => err = "save"

\* C12: a driver returns, normally or by exception, only once every save it
\* submitted is over; every rendered item is submitted exactly once; when a
\* save failed the driver ends with an exception, which is the failure of a
\* save unless a render raised first: then the exception of the render is
\* what the caller receives and the failed save is not reported.
C12_WaitsForSaves ==
    /\ pc = "exit" => AllSavesOver
    /\ SubmittedOnce
    /\ (pc = "exit" /\ err # "render") => Len(tasks) = Len(rendered)
    /\ (pc = "exit" /\ SaveFailed) => err \in {"save", "render"}
    /\ (pc = "exit" /\ SaveFailed /\ err # "render") => err = "save"
    /\ (pc = "exit" /\ err = "save") => SaveFailed
    /\ (pc = "exit" /\ err = "render") =>
         /\ Len(rendered) = Len(tasks) + 1
         /\ res_idx = 0

C12_Witness ==
    /\ pc = "exit"
    /\ err = "render"
    /\ Len(tasks) = 5
    /\ tasks[1].st = "failed"
    /\ tasks[5].st = "done"

\* C13: the frame process_image returns has exactly the size the encoder was
\* configured with, (2 x get_output_size(...).width, get_output_size(...).height)
\* for the size of the source, for every pad (unset included) and rotation.
C13_EncoderSizeMatches ==
    pi_pc = "done" =>
        /\ pi_out.w = pi_config.width
        /\ pi_out.h = pi_config.height
        /\ DOMAIN pi_out.px = Coords(pi_config.height, pi_config.width)

\* a rotated frame, wider than high once rotated, padded on all sides
C13_Witness ==
    /\ pi_pc = "done"
    /\ pi_args.rotate_left
    /\ pi_args.pad_set
    /\ pi_im.w > pi_im.h
    /\ PiPadW > 0
    /\ PiPadH > 0
    /\ pi_out.w = pi_config.width
    /\ pi_out.h = pi_config.height

ImageTasks == {i \in DOMAIN tasks : tasks[i].unit.mode = "images"}

\* C14 as stated: in a directory run two distinct input files are given
\* distinct output files, so no two saves of the pool, running together or
\* not, write the same path.
C14_DistinctOutputs ==
    \A i, j \in ImageTasks :
        /\ tasks[i].unit.file # tasks[j].unit.file
             => PathChars(tasks[i].out) # PathChars(tasks[j].out)
        /\ (i # j /\ tasks[i].st = "running" /\ tasks[j].st = "running")
             => tasks[i].out # tasks[j].out

\* the frames the inputs of the side model are looked at for
FrameExtents == {<<1, 1>>, <<1, 3>>, <<2, 2>>}

\* the model inputs of one apply_divergence_nn call of process_image on a
\* frame of an extent: one input_callback result per tile
NNInputs(hw, cfg, shift) ==
    LET im == CHOOSE x \in PatternImages(hw[1], hw[2]) : TRUE
        depth == CHOOSE d \in OracleDepths(hw[1], hw[2]) : DepthMin(d) # DepthMax(d) \/ hw[2] = 1
        c == IF shift > 0 THEN Flip(ToTensor(im)) ELSE ToTensor(im)
        dd == IF shift > 0 THEN Flip(depth) ELSE depth
        p == <<PadReplicate(c, cfg.pad), PadReplicate(dd, cfg.pad)>>
        tiles == TileSeq(c.h, c.w, cfg.tile_size, cfg.pad)
    IN  [n \in DOMAIN tiles |->
            input_callback(side_model, c.w, args.divergence, DepthMin(depth), DepthMax(depth),
                           p, tiles[n])]

\* C15: whenever process_image runs with the neural warp, the side model main
\* loaded has fixed_divergence = args.divergence, so every model input, for
\* every tile and both eyes, carries the requested divergence and an
\* effective image width equal to the width of the frame.
C15_FixedDivergenceIsRequested ==
    (args.method = "row_flow" /\ renders # {}) =>
        /\ side_model.fixed_divergence = args.divergence
        /\ side_model.path = ModelPath(args.divergence)
        /\ \A hw \in FrameExtents, cfg \in TileConfigs, shift \in {LeftShift, RightShift} :
             LET inputs == NNInputs(hw, cfg, shift)
             IN  /\ inputs # <<>>
                 /\ \A n \in DOMAIN inputs :
                      /\ inputs[n].divergence = args.divergence
                      /\ inputs[n].image_width = Frac(hw[2], 1)

\* a render in flight with the model of 2.0, on a frame of several tiles
C15_Witness ==
    /\ args.method = "row_flow"
    /\ args.divergence = 20
    /\ pc = "rendering"
    /\ renders = {cur}
    /\ side_model.fixed_divergence = 20
    /\ Len(NNInputs(<<2, 2>>, [tile_size |-> 3, pad |-> 1], RightShift)) = 4

====
